---- MODULE Spec2Model ----
(***************************************************************************)
(* Model of agent1-Save_PDFs/url_to_pdf_agent.py: the URL collector, the   *)
(* filename deriver, the two renderers and the batch driver.               *)
(* Strings are sequences of one-character strings, so that strip,          *)
(* startswith, replace and slicing are computed as Python computes them.   *)
(***************************************************************************)
EXTENDS Integers, Sequences, FiniteSets, TLC

\* ------------------------------------------------------------------ bounds
MaxPieces == 3      \* pieces concatenated into one sanitize_filename input
MaxLinePieces == 2  \* pieces concatenated into one line of a URL list file
MaxLines == 2       \* lines in a URL list file
MaxFiles == 2       \* .txt files in an input directory

\* ------------------------------------------------------- string primitives
RECURSIVE Rep(_, _)
Rep(s, n) == IF n = 0 THEN <<>> ELSE s \o Rep(s, n - 1)

\* str.startswith at offset i (1-based)
StartsWithAt(s, i, p) ==
    /\ i + Len(p) - 1 <= Len(s)
    /\ \A k \in 1..Len(p) : s[i + k - 1] = p[k]

startswith(s, p) == StartsWithAt(s, 1, p)

\* str.replace(old, new): every non-overlapping occurrence, left to right
RECURSIVE ReplaceFrom(_, _, _, _)
ReplaceFrom(s, i, old, new) ==
    IF i > Len(s) THEN <<>>
    ELSE IF StartsWithAt(s, i, old)
         THEN new \o ReplaceFrom(s, i + Len(old), old, new)
         ELSE <<s[i]>> \o ReplaceFrom(s, i + 1, old, new)

replace(s, old, new) == ReplaceFrom(s, 1, old, new)

Letters ==
    {"a","b","c","d","e","f","g","h","i","j","k","l","m","n","o","p","q","r",
     "s","t","u","v","w","x","y","z","A","B","C","D","E","F","G","H","I","J",
     "K","L","M","N","O","P","Q","R","S","T","U","V","W","X","Y","Z"}
Digits == {"0","1","2","3","4","5","6","7","8","9"}

isalnum(c) == c \in Letters \cup Digits

Whitespace == {" ", "\t", "\n", "\r"}

\* str.strip(): drop leading and trailing whitespace
RECURSIVE lstrip(_)
lstrip(s) == IF s # <<>> /\ Head(s) \in Whitespace THEN lstrip(Tail(s)) ELSE s
RECURSIVE rstrip(_)
rstrip(s) ==
    IF s # <<>> /\ s[Len(s)] \in Whitespace
    THEN rstrip(SubSeq(s, 1, Len(s) - 1)) ELSE s
strip(s) == rstrip(lstrip(s))

HTTPS == <<"h","t","t","p","s",":","/","/">>
HTTP == <<"h","t","t","p",":","/","/">>
PDF == <<".","p","d","f">>

\* ------------------------------------------------------ sanitize_filename
MaxNameLen == 100

Take(s, n) == SubSeq(s, 1, IF Len(s) < n THEN Len(s) ELSE n)

StripSchemes(url) == replace(replace(url, HTTPS, <<>>), HTTP, <<>>)

ReplaceSeparators(f) ==
    replace(replace(replace(f, <<"/">>, <<"_">>), <<"?">>, <<"_">>),
            <<"&">>, <<"_">>)

SafeChar(c) == isalnum(c) \/ c \in {".", "_", "-"}

KeepSafe(f) == SelectSeq(f, SafeChar)

TruncateNone(f) == f
Truncate(f) == Take(f, MaxNameLen)

sanitize_filename(u) == Truncate(KeepSafe(ReplaceSeparators(StripSchemes(u)))) \o PDF

\* ---------------------------------------------------- read_urls_from_file
\* One iteration of the for loop (lines 46-51) on line number n.
ReadLineNoStrip(acc, n, raw) ==
    LET line == raw IN
    IF line # <<>> /\ ~startswith(line, <<"#">>)
    THEN IF startswith(line, HTTP) \/ startswith(line, HTTPS)
         THEN [acc EXCEPT !.urls = Append(@, line)]
         ELSE [acc EXCEPT !.warnings = Append(@, [line_num |-> n, line |-> line])]
    ELSE acc
ReadLine(acc, n, raw) ==
    LET line == strip(raw) IN
    IF line # <<>> /\ ~startswith(line, <<"#">>)
    THEN IF startswith(line, HTTP) \/ startswith(line, HTTPS)
         THEN [acc EXCEPT !.urls = Append(@, line)]
         ELSE [acc EXCEPT !.warnings = Append(@, [line_num |-> n, line |-> line])]
    ELSE acc

\* The loop over lines n .. stop-1 of the file.
RECURSIVE ReadLoop(_, _, _, _)
ReadLoop(f, n, stop, acc) ==
    IF n >= stop THEN acc ELSE ReadLoop(f, n + 1, stop, ReadLine(acc, n, f[n]))

\* f: the lines of the file; flt: where the read raises (0: open() raises,
\* k in 1..Len(f): fetching line k raises, Len(f)+1: no error).
\* urls is the list bound before the try and returned after the except.
read_urls_from_file(f, flt) ==
    LET raised == flt <= Len(f)
        stop == IF raised THEN flt ELSE Len(f) + 1
        acc == ReadLoop(f, 1, stop, [urls |-> <<>>, warnings |-> <<>>])
    IN [urls |-> acc.urls, warnings |-> acc.warnings, error |-> raised]

\* ------------------------------------------------------------- test inputs
RECURSIVE Concat(_)
Concat(ss) == IF ss = <<>> THEN <<>> ELSE Head(ss) \o Concat(Tail(ss))

SeqsUpTo(S, n) == UNION {[1..k -> S] : k \in 0..n}

LongPiece == Rep(<<"Z", "9">>, 26)

SanPieces ==
    {HTTPS, HTTP, <<"h", "t">>, <<"t", "p", ":", "/", "/">>, <<"a">>,
     <<"/">>, <<"?">>, <<"&">>, <<"=">>, <<".">>, <<"-">>, <<"%">>, LongPiece}

SanInputs == {Concat(ps) : ps \in SeqsUpTo(SanPieces, MaxPieces)}

LinePieces == {<<" ">>, <<"#">>, HTTP, HTTPS, <<"x">>}

ReadLineSet == {Concat(ps) \o <<"\n">> : ps \in SeqsUpTo(LinePieces, MaxLinePieces)}

\* one line of each kind: URL, comment, invalid, blank
CoreLines ==
    {HTTPS \o <<"c", "\n">>, <<"#", "c", "\n">>, <<"x", "\n">>, <<"\n">>}

\* files of at most MaxLines lines, at most one line of which is drawn from
\* ReadLineSet and the others from CoreLines
ReadFiles ==
    {[i \in 1..Len(base) |-> IF i = k THEN rich ELSE base[i]] :
        base \in SeqsUpTo(CoreLines, MaxLines), k \in 1..MaxLines,
        rich \in ReadLineSet}

DriverLines ==
    {HTTP \o <<"a", "/", "b", "\n">>,
     <<" ">> \o HTTPS \o <<"a", "?", "b", "\n">>,
     <<"f", "t", "p", ":", "/", "/", "c", "\n">>}

DriverURLs ==
    UNION {{r.urls[i] : i \in 1..Len(r.urls)} :
           r \in {read_urls_from_file(<<l>>, 2) : l \in DriverLines}}

Names == {sanitize_filename(u) : u \in DriverURLs}

\* -------------------------------------------------------------------- state
VARIABLES
    pc,             \* position of the single thread of control
    input_kind,     \* what args.input names: "file", "dir" or "none"
    mkdir_ok,       \* whether Path(args.output).mkdir(exist_ok=True) succeeds
    files_left,     \* files process_directory / main still has to process
    exit_status,    \* -1 while running, else the process exit status
    printed_error,  \* main printed "Error: <input> is not a valid file ..."
    lines, fault,   \* the URL list file handed to read_urls_from_file
    urls, warnings, read_error,   \* what read_urls_from_file returned / logged
    idx,            \* position of process_file's for loop in urls
    success_count,
    attempted,      \* URLs process_url was called with, for the current file
    warned_no_urls, \* process_file logged "No valid URLs found"
    url, filename,  \* process_url's argument and derived filename
    primary_calls, fallback_calls, primary_ok,
    ret,            \* "none", or the value process_url returned
    browsers,       \* number of live browser instances
    exc_at,         \* "none", or the step of create_pdf_with_selenium that raised
    pdf_data,       \* result of Page.printToPDF
    fs,             \* output directory: filename -> [exists, bytes]
    fs_before       \* fs[filename] when create_pdf_with_selenium was entered

vars == <<pc, input_kind, mkdir_ok, files_left, exit_status,
          printed_error, lines, fault, urls, warnings, read_error, idx,
          success_count, attempted, warned_no_urls, url, filename,
          primary_calls, fallback_calls, primary_ok, ret, browsers, exc_at,
          pdf_data, fs, fs_before>>

envVars == <<input_kind, mkdir_ok, lines, fault>>
fileVars == <<urls, warnings, read_error, idx, success_count, attempted,
              warned_no_urls>>
urlVars == <<url, filename, primary_calls, fallback_calls, primary_ok, ret>>
selVars == <<browsers, exc_at, pdf_data, fs_before>>

Absent == [exists |-> FALSE, bytes |-> <<>>]
File(b) == [exists |-> TRUE, bytes |-> b]

\* the page of u as rendered by each engine, and the CDP payload encoding
WkBytes(u) == <<"wkhtmltopdf">> \o u
CdpBytes(u) == <<"chrome">> \o u
b64encode(b) == <<"b64">> \o b
b64decode(d) == Tail(d)

\* names bound in the module's global namespace by the import block
ModuleGlobals ==
    {"os", "sys", "logging", "argparse", "Path", "List", "Optional",
     "requests", "webdriver", "Options", "By", "WebDriverWait", "EC", "pdfkit"}
NameResolves(n) == n \in ModuleGlobals

InitFile ==
    /\ urls = <<>> /\ warnings = <<>> /\ read_error = FALSE /\ idx = 0
    /\ success_count = 0 /\ attempted = <<>> /\ warned_no_urls = FALSE
InitUrl ==
    /\ primary_calls = 0 /\ fallback_calls = 0 /\ primary_ok = FALSE
    /\ ret = "none"
InitSel ==
    /\ browsers = 0 /\ exc_at = "none" /\ pdf_data = <<>>
    /\ fs_before = Absent
InitRun ==
    /\ files_left = 0 /\ exit_status = -1 /\ printed_error = FALSE
    /\ fs = [n \in Names |-> Absent]

\* ------------------------------------------------------------ batch driver
Init ==
    /\ pc = "main"
    /\ input_kind \in {"file", "dir", "none"}
    /\ mkdir_ok \in BOOLEAN
    /\ lines = <<>> /\ fault = 0
    /\ url = <<>> /\ filename = <<>>
    /\ InitFile /\ InitUrl /\ InitSel /\ InitRun

\* main(), up to the dispatch on the input path.  An exception escaping
\* URLToPDFAgent.__init__ is uncaught: traceback, exit status 1.
main ==
    /\ pc = "main"
    /\ IF ~mkdir_ok
       THEN /\ pc' = "exit" /\ exit_status' = 1
            /\ UNCHANGED <<files_left, printed_error>>
       ELSE IF input_kind = "file"
       THEN /\ pc' = "process_file" /\ files_left' = 1
            /\ UNCHANGED <<exit_status, printed_error>>
       ELSE IF input_kind = "dir"
       THEN /\ pc' = "process_directory"
            /\ UNCHANGED <<files_left, exit_status, printed_error>>
       ELSE /\ pc' = "exit" /\ exit_status' = 1 /\ printed_error' = TRUE
            /\ UNCHANGED files_left
    /\ UNCHANGED <<envVars, fileVars, urlVars, selVars, fs>>

\* n_txt: the number of files directory.glob("*.txt") lists
process_directory ==
    /\ pc = "process_directory"
    /\ \E n_txt \in 0..MaxFiles :
         IF n_txt = 0
         THEN /\ pc' = "exit" /\ exit_status' = 0 /\ UNCHANGED files_left
         ELSE /\ pc' = "process_file" /\ files_left' = n_txt
              /\ UNCHANGED exit_status
    /\ UNCHANGED <<envVars, printed_error, fileVars, urlVars, selVars, fs>>

FileSet == SeqsUpTo(DriverLines, MaxLines)

\* process_file up to the first iteration of its for loop
process_file ==
    /\ pc = "process_file"
    /\ \E f \in FileSet : \E flt \in 0..(Len(f) + 1) :
         LET r == read_urls_from_file(f, flt) IN
         /\ urls' = r.urls /\ warnings' = r.warnings /\ read_error' = r.error
         /\ attempted' = <<>> /\ success_count' = 0
         /\ IF r.urls = <<>>
            THEN /\ warned_no_urls' = TRUE /\ idx' = 0 /\ pc' = "file_done"
            ELSE /\ warned_no_urls' = FALSE /\ idx' = 1 /\ pc' = "process_url"
    /\ files_left' = files_left - 1
    /\ UNCHANGED <<envVars, exit_status, printed_error, urlVars, selVars, fs>>

\* process_url, lines 132-135
process_url ==
    /\ pc = "process_url"
    /\ url' = urls[idx]
    /\ filename' = sanitize_filename(urls[idx])
    /\ attempted' = Append(attempted, urls[idx])
    /\ primary_calls' = 0 /\ fallback_calls' = 0 /\ primary_ok' = FALSE
    /\ ret' = "none"
    /\ pc' = "wkhtmltopdf"
    /\ UNCHANGED <<envVars, files_left, exit_status, printed_error, urls,
                   warnings, read_error, idx, success_count, warned_no_urls,
                   selVars, fs>>

\* pdfkit.from_url either writes the PDF or raises; the exception is caught
create_pdf_with_wkhtmltopdf ==
    /\ pc = "wkhtmltopdf"
    /\ primary_calls' = primary_calls + 1
    /\ \E ok \in BOOLEAN :
         /\ primary_ok' = ok
         /\ fs' = IF ok THEN [fs EXCEPT ![filename] = File(WkBytes(url))] ELSE fs
    /\ pc' = "branch"
    /\ UNCHANGED <<envVars, files_left, exit_status, printed_error, fileVars,
                   url, filename, fallback_calls, ret, selVars>>

\* the if/else of process_url, lines 138-142
FallbackAlways ==
    /\ pc = "branch"
    /\ pc' = "sel_launch" /\ UNCHANGED ret
    /\ UNCHANGED <<envVars, files_left, exit_status, printed_error, fileVars,
                   url, filename, primary_calls, fallback_calls, primary_ok,
                   selVars, fs>>
process_url_branch ==
    /\ pc = "branch"
    /\ IF primary_ok
       THEN /\ ret' = "true" /\ pc' = "url_done"
       ELSE /\ pc' = "sel_launch" /\ UNCHANGED ret
    /\ UNCHANGED <<envVars, files_left, exit_status, printed_error, fileVars,
                   url, filename, primary_calls, fallback_calls, primary_ok,
                   selVars, fs>>

\* ------------------------------------------------ create_pdf_with_selenium
\* An exception inside the inner try (lines 101-121): the finally clause
\* runs before the outer except sees it.
InnerRaiseNoFinally(stage) ==
    /\ exc_at' = stage /\ pc' = "url_done" /\ ret' = "false"
    /\ UNCHANGED browsers
InnerRaise(stage) ==
    /\ exc_at' = stage /\ pc' = "sel_quit"
    /\ UNCHANGED <<ret, browsers>>

\* lines 90-99: webdriver.Chrome() either yields a live browser or raises
sel_launch ==
    /\ pc = "sel_launch"
    /\ fallback_calls' = fallback_calls + 1
    /\ fs_before' = fs[filename]
    /\ pdf_data' = <<>>
    /\ \E ok \in BOOLEAN :
         IF ok
         THEN /\ browsers' = browsers + 1 /\ exc_at' = "none"
              /\ pc' = "sel_get" /\ UNCHANGED ret
         ELSE /\ exc_at' = "launch" /\ ret' = "false" /\ pc' = "url_done"
              /\ UNCHANGED browsers
    /\ UNCHANGED <<envVars, files_left, exit_status, printed_error, fileVars,
                   url, filename, primary_calls, primary_ok, fs>>

\* line 102: driver.get(url)
sel_get ==
    /\ pc = "sel_get"
    /\ \E ok \in BOOLEAN :
         IF ok THEN pc' = "sel_wait" /\ UNCHANGED <<exc_at, ret, browsers>>
         ELSE InnerRaise("get")
    /\ UNCHANGED <<envVars, files_left, exit_status, printed_error, fileVars,
                   url, filename, primary_calls, fallback_calls, primary_ok,
                   pdf_data, fs, fs_before>>

\* lines 103-105: the body element appears within 10 s, or TimeoutException
sel_wait ==
    /\ pc = "sel_wait"
    /\ \E ok \in BOOLEAN :
         IF ok THEN pc' = "sel_export" /\ UNCHANGED <<exc_at, ret, browsers>>
         ELSE InnerRaise("wait")
    /\ UNCHANGED <<envVars, files_left, exit_status, printed_error, fileVars,
                   url, filename, primary_calls, fallback_calls, primary_ok,
                   pdf_data, fs, fs_before>>

\* line 115: Page.printToPDF
sel_export ==
    /\ pc = "sel_export"
    /\ \E ok \in BOOLEAN :
         IF ok
         THEN /\ pdf_data' = b64encode(CdpBytes(url)) /\ pc' = "sel_open"
              /\ UNCHANGED <<exc_at, ret, browsers>>
         ELSE InnerRaise("export") /\ UNCHANGED pdf_data
    /\ UNCHANGED <<envVars, files_left, exit_status, printed_error, fileVars,
                   url, filename, primary_calls, fallback_calls, primary_ok,
                   fs, fs_before>>

\* line 117: open(output_path, 'wb') creates or truncates the file
sel_open ==
    /\ pc = "sel_open"
    /\ \E ok \in BOOLEAN :
         IF ok
         THEN /\ fs' = [fs EXCEPT ![filename] = File(<<>>)]
              /\ pc' = "sel_write" /\ UNCHANGED <<exc_at, ret, browsers>>
         ELSE InnerRaise("open") /\ UNCHANGED fs
    /\ UNCHANGED <<envVars, files_left, exit_status, printed_error, fileVars,
                   url, filename, primary_calls, fallback_calls, primary_ok,
                   pdf_data, fs_before>>

\* line 118: f.write(base64.b64decode(pdf_data['data'])); evaluating the
\* argument raises NameError when the name base64 is not bound
sel_write ==
    /\ pc = "sel_write"
    /\ IF NameResolves("base64")
       THEN \E ok \in BOOLEAN :
              IF ok
              THEN /\ fs' = [fs EXCEPT ![filename] = File(b64decode(pdf_data))]
                   /\ pc' = "sel_quit" /\ UNCHANGED <<exc_at, ret, browsers>>
              ELSE InnerRaise("write") /\ UNCHANGED fs
       ELSE InnerRaise("decode") /\ UNCHANGED fs
    /\ UNCHANGED <<envVars, files_left, exit_status, printed_error, fileVars,
                   url, filename, primary_calls, fallback_calls, primary_ok,
                   pdf_data, fs_before>>

\* lines 123-128: finally driver.quit(), then return True or the outer
\* except's return False
sel_quit ==
    /\ pc = "sel_quit"
    /\ browsers' = browsers - 1
    /\ ret' = IF exc_at = "none" THEN "true" ELSE "false"
    /\ pc' = "url_done"
    /\ UNCHANGED <<envVars, files_left, exit_status, printed_error, fileVars,
                   url, filename, primary_calls, fallback_calls, primary_ok,
                   exc_at, pdf_data, fs, fs_before>>

\* ----------------------------------------------------- loops of the driver
\* process_file's for loop after process_url returned, lines 153-157
LoopStopsOnFailure ==
    /\ pc = "url_done"
    /\ success_count' = success_count + (IF ret = "true" THEN 1 ELSE 0)
    /\ IF idx < Len(urls) /\ ret = "true"
       THEN idx' = idx + 1 /\ pc' = "process_url"
       ELSE pc' = "file_done" /\ UNCHANGED idx
    /\ UNCHANGED <<envVars, files_left, exit_status, printed_error, urls,
                   warnings, read_error, attempted, warned_no_urls, urlVars,
                   selVars, fs>>
loop_next ==
    /\ pc = "url_done"
    /\ success_count' = success_count + (IF ret = "true" THEN 1 ELSE 0)
    /\ IF idx < Len(urls)
       THEN idx' = idx + 1 /\ pc' = "process_url"
       ELSE pc' = "file_done" /\ UNCHANGED idx
    /\ UNCHANGED <<envVars, files_left, exit_status, printed_error, urls,
                   warnings, read_error, attempted, warned_no_urls, urlVars,
                   selVars, fs>>

\* process_file returned: process_directory's for loop, then main returns
next_file ==
    /\ pc = "file_done"
    /\ IF files_left > 0
       THEN pc' = "process_file" /\ UNCHANGED exit_status
       ELSE pc' = "exit" /\ exit_status' = 0
    /\ UNCHANGED <<envVars, files_left, printed_error, fileVars, urlVars,
                   selVars, fs>>

Next ==
    \/ main
    \/ process_directory
    \/ process_file
    \/ process_url
    \/ create_pdf_with_wkhtmltopdf
    \/ process_url_branch
    \/ sel_launch
    \/ sel_get
    \/ sel_wait
    \/ sel_export
    \/ sel_open
    \/ sel_write
    \/ sel_quit
    \/ loop_next
    \/ next_file

Spec == Init /\ [][Next]_vars

\* ----------------------------------------- sanitize_filename on its own
InitSanitize ==
    /\ pc = "sanitize"
    /\ url \in SanInputs /\ filename = <<>>
    /\ input_kind = "none" /\ mkdir_ok = TRUE
    /\ lines = <<>> /\ fault = 0
    /\ InitFile /\ InitUrl /\ InitSel /\ InitRun

ApplySanitize ==
    /\ pc = "sanitize"
    /\ filename' = sanitize_filename(url)
    /\ pc' = "sanitized"
    /\ UNCHANGED <<envVars, files_left, exit_status, printed_error, fileVars,
                   url, primary_calls, fallback_calls, primary_ok, ret,
                   selVars, fs>>

NextSanitize == ApplySanitize

SpecSanitize == InitSanitize /\ [][NextSanitize]_vars

\* --------------------------------------- read_urls_from_file on its own
InitRead ==
    /\ pc = "read"
    /\ lines \in ReadFiles
    /\ fault \in 0..(Len(lines) + 1)
    /\ url = <<>> /\ filename = <<>>
    /\ input_kind = "none" /\ mkdir_ok = TRUE
    /\ InitFile /\ InitUrl /\ InitSel /\ InitRun

ApplyRead ==
    /\ pc = "read"
    /\ LET r == read_urls_from_file(lines, fault) IN
         /\ urls' = r.urls /\ warnings' = r.warnings /\ read_error' = r.error
    /\ pc' = "read_done"
    /\ UNCHANGED <<envVars, files_left, exit_status, printed_error, idx,
                   success_count, attempted, warned_no_urls, urlVars, selVars,
                   fs>>

NextRead == ApplyRead

SpecRead == InitRead /\ [][NextRead]_vars

\* =================================================================== claims
InSelenium == pc \in {"sel_get", "sel_wait", "sel_export", "sel_open",
                      "sel_write", "sel_quit"}

\* C1: for every URL given to process_url the primary renderer is attempted
\* first and exactly once; the fallback renderer is invoked exactly once if
\* the primary reported failure and never if it reported success.
C1_PrimaryThenFallback ==
    /\ primary_calls <= 1 /\ fallback_calls <= 1
    /\ fallback_calls > 0 => (primary_calls = 1 /\ ~primary_ok)
    /\ (pc = "sel_launch" \/ InSelenium) => primary_calls = 1
    /\ pc = "url_done" =>
         /\ primary_calls = 1
         /\ fallback_calls = (IF primary_ok THEN 0 ELSE 1)

C1_Witness ==
    pc = "url_done" /\ ~primary_ok /\ primary_calls = 1 /\ fallback_calls = 1

\* C2: when the primary renderer failed and browser launch, navigation,
\* body wait and printToPDF export all succeeded (and the output file could
\* be opened and written), create_pdf_with_selenium has written the decoded
\* PDF bytes to the output path and process_url returns true.
C2_FallbackWritesAndReturnsTrue ==
    (/\ pc = "url_done" /\ fallback_calls = 1
     /\ exc_at \notin {"launch", "get", "wait", "export", "open", "write"})
    => (ret = "true" /\ fs[filename] = File(CdpBytes(url)))

\* C3: every browser create_pdf_with_selenium launches is quit before it
\* returns, on every exit path; no browser is live outside the fallback
\* renderer and at most one is live at any time.
C3_BrowserAlwaysQuit ==
    /\ browsers \in {0, 1}
    /\ browsers = 1 <=> InSelenium

C3_Witness ==
    /\ pc = "url_done" /\ fallback_calls = 1 /\ exc_at = "decode"
    /\ browsers = 0

\* C4: if opening or reading the URL list file raises, also after some lines
\* were accepted, read_urls_from_file returns an empty sequence and
\* process_file makes no render attempt for that file.
C4_ReadErrorYieldsNoUrls ==
    read_error => (urls = <<>> /\ attempted = <<>>)

\* --- an independent description of the collector's result
IsTrimOf(t, l) ==
    \E i \in 1..(Len(l) + 1) : \E j \in (i - 1)..Len(l) :
        /\ t = SubSeq(l, i, j)
        /\ \A k \in 1..(i - 1) : l[k] \in Whitespace
        /\ \A k \in (j + 1)..Len(l) : l[k] \in Whitespace
        /\ i <= j => (l[i] \notin Whitespace /\ l[j] \notin Whitespace)

Trimmed(l) ==
    CHOOSE t \in {SubSeq(l, i, j) : i \in 1..(Len(l) + 1), j \in 0..Len(l)} :
        IsTrimOf(t, l)

HasPrefix(t, p) == Len(t) >= Len(p) /\ SubSeq(t, 1, Len(p)) = p

LineKind(l) ==
    LET t == Trimmed(l) IN
    IF t = <<>> \/ HasPrefix(t, <<"#">>) THEN "skip"
    ELSE IF HasPrefix(t, HTTP) \/ HasPrefix(t, HTTPS) THEN "url"
    ELSE "invalid"

Nth(S, k) == CHOOSE i \in S : Cardinality({j \in S : j < i}) = k - 1

StripLeadingScheme(u) ==
    IF HasPrefix(u, HTTPS) THEN SubSeq(u, Len(HTTPS) + 1, Len(u))
    ELSE IF HasPrefix(u, HTTP) THEN SubSeq(u, Len(HTTP) + 1, Len(u))
    ELSE u

\* C6: sanitize_filename removes a scheme prefix only when it is leading and
\* at most once; a later https:// or http:// goes through the character
\* replacement and deletion rules like any other text.
C6_OnlyLeadingSchemeRemoved ==
    pc = "sanitized" =>
        filename = Take(KeepSafe(ReplaceSeparators(StripLeadingScheme(url))),
                        MaxNameLen) \o PDF

\* C7: main exits with status 1, after printing the error naming the path,
\* exactly when the input path is neither a file nor a directory; for every
\* valid input path it exits with status 0.
C7_ExitStatus ==
    pc = "exit" =>
        /\ exit_status = 1 <=> input_kind = "none"
        /\ input_kind \in {"file", "dir"} => exit_status = 0

\* C8: process_file calls process_url exactly once per collected URL, in
\* collector order, whatever earlier outcomes were; with zero URLs it makes
\* no render attempt and logs a warning.
C8_EveryUrlAttemptedInOrder ==
    /\ Len(attempted) <= Len(urls)
    /\ \A i \in 1..Len(attempted) : attempted[i] = urls[i]
    /\ (pc \in {"wkhtmltopdf", "branch", "sel_launch", "url_done"} \/ InSelenium)
         => Len(attempted) = idx
    /\ pc = "file_done" =>
         /\ attempted = urls
         /\ urls = <<>> => warned_no_urls
         /\ urls # <<>> => ~warned_no_urls

C8_Witness ==
    /\ pc = "file_done" /\ Len(urls) = 2 /\ attempted = urls
    /\ success_count = 1 /\ ret = "true"

C10_FailedFallbackLeavesFile ==
    (pc = "url_done" /\ fallback_calls = 1 /\ ret = "false")
        => fs[filename] = fs_before

====
